---- MODULE Spec2Model ----
(***************************************************************************)
(* Schema-graph dependency resolution and validation-schema synthesis of   *)
(* the metadata model (MetadataModel.py and the schema_generator helpers   *)
(* it delegates to).                                                       *)
(*                                                                         *)
(* The schema graph is a typed multigraph over node labels.  The resolver  *)
(* entry points of MetadataModel are thin wrappers: each one calls a       *)
(* helper of schema_generator and post-processes what the helper returns.  *)
(* The wrappers are translated from MetadataModel.py; the helpers, whose   *)
(* code is not part of the source tree at hand, follow the design document *)
(* (sections 4.1 - 4.4, 5, 6 and 7).                                       *)
(***************************************************************************)
EXTENDS Naturals, Integers, Sequences, FiniteSets, TLC

VARIABLES
    nodes,      \* labels of the nodes of the schema graph
    edges,      \* set of [src, dst, kind, gate]
    allowed,    \* allowed literal values of each label ({} = not enumerated)
    rules,      \* validation rules of each label: a list of rule strings
    pc,         \* "idle" | "dfs" | "bfs" | "schema" | "rows" | "done": position of the current call
    op,         \* the call in progress: [name, root, kind]
    stack,      \* depth-first traversal: the current path, root first
    finished,   \* depth-first traversal: nodes whose visit has finished
    post,       \* depth-first traversal: nodes in the order their visit finished
    visits,     \* nodes entered (dfs) or expanded (bfs) by the current call
    queue,      \* breadth-first traversal: discovered, not yet expanded
    seen,       \* breadth-first traversal: the visited-set
    expanded,   \* breadth-first traversal: nodes already expanded
    order,      \* breadth-first traversal: components in first-visit order
    jsonSchema, \* validateModelManifest: the constraint document applied
    annotations,    \* validateModelManifest: the records of the manifest
    recordIndex,    \* validateModelManifest: i, the 0-based position of the next record
    errorPositions, \* validateModelManifest: the diagnostics collected so far
    result,     \* outcome of the last call: [status, value]
    last,       \* the previous call and its outcome, when the caller kept it
    other,      \* the locals of a second call in progress on another thread
    DATA,       \* Configuration: the loaded configuration data, or None
    CONFIG_PATH,    \* Configuration: the path the data was loaded from, or None
    environ,    \* os.environ: the value of SCHEMATIC_CONFIG, or NotSet
    files,      \* the file system: what yaml.safe_load makes of the file at a path
    frames,     \* Configuration: the calls in progress, the outermost first
    loads       \* Configuration: calls of load_config_from_env made by the current call

vars == <<nodes, edges, allowed, rules, pc, op, stack, finished, post, visits,
          queue, seen, expanded, order, jsonSchema, annotations, recordIndex,
          errorPositions, result, last, other, DATA, CONFIG_PATH, environ, files,
          frames, loads>>

graphVars == <<nodes, edges, allowed, rules>>
dfsVars == <<stack, finished, post>>
bfsVars == <<queue, seen, expanded, order>>
configVars == <<DATA, CONFIG_PATH, environ, files, frames, loads>>
rowVars == <<jsonSchema, annotations, recordIndex, errorPositions>>
\* what a step of a traversal leaves alone besides its own locals
heldVars == <<graphVars, rowVars, last, other, configVars>>

(***************************************************************************)
(* Bounds of the model.                                                    *)
(***************************************************************************)
NumLabels == 3
MaxEdges == 3
\* calls in progress at one time before the interpreter raises RecursionError
RecursionLimit == 6
\* characters of a display name
MaxNameLen == 2
\* rows and columns of a data frame handed to normalize_table
MaxRows == 2
MaxColumns == 2
\* rule tokens joined by "::" in one rule string, rule strings of one node
MaxTokens == 2
MaxRules == 2
\* cells of a manifest (records times columns)
MaxCells == 3

Labels == 1..NumLabels

RequiresDependency == "requiresDependency"
RequiresComponent == "requiresComponent"
RelKinds == {RequiresDependency, RequiresComponent}

Values == {"v1", "v2"}
NoGate == "none"

(***************************************************************************)
(* Sequences.                                                              *)
(***************************************************************************)
Range(s) == {s[i] : i \in 1..Len(s)}

IsInjective(s) == \A i, j \in 1..Len(s) : s[i] = s[j] => i = j

IndexOf(s, x) == CHOOSE i \in 1..Len(s) : s[i] = x

Orderings(S) ==
    {s \in [1..Cardinality(S) -> S] : \A x \in S : \E i \in 1..Cardinality(S) : s[i] = x}

\* list.reverse() that loses the last element
ReverseDropLast(s) == [i \in 1..(Len(s) - 1) |-> s[Len(s) - i]]

\* list.reverse()
Reverse(s) == [i \in 1..Len(s) |-> s[Len(s) + 1 - i]]

(***************************************************************************)
(* Outcomes of a call: a returned value or a raised error.                 *)
(***************************************************************************)
Ok(v) == [status |-> "ok", value |-> v]
Fail(e) == [status |-> e, value |-> <<>>]
NoResult == [status |-> "none", value |-> <<>>]
NoOp == [name |-> "none", root |-> 0, kind |-> "none"]

\* No constraint document: nothing is constrained
NoSchema == [properties |-> <<>>, required |-> {}, conditional |-> <<>>]

\* None, the value of a field that is not set; a mapping; a string
None == [type |-> "NoneType"]
Dict(items) == [type |-> "dict", items |-> items]
Str(string) == [type |-> "str", string |-> string]
\* SCHEMATIC_CONFIG is not in os.environ
NotSet == "NotSet"
\* there is no file at the path
Missing == [type |-> "missing"]

\* No configuration is loaded and none is named by the environment
Unconfigured ==
    /\ DATA = None
    /\ CONFIG_PATH = None
    /\ environ = NotSet
    /\ files = <<>>

\* No previous call is remembered
NoLast == [op |-> NoOp, result |-> NoResult]

\* The locals of a call that has not started
IdleLocals ==
    [pc |-> "idle", op |-> NoOp, stack |-> <<>>, finished |-> {}, post |-> <<>>,
     visits |-> 0, queue |-> <<>>, seen |-> {}, expanded |-> {}, order |-> <<>>,
     jsonSchema |-> NoSchema, annotations |-> <<>>, recordIndex |-> 0,
     errorPositions |-> <<>>, result |-> NoResult]

(***************************************************************************)
(* SchemaGraph: the query interface the resolvers require.                 *)
(***************************************************************************)
nodeExists(label) == label \in nodes

outEdges(label, kind) == {e.dst : e \in {x \in edges : x.src = label /\ x.kind = kind}}

inEdges(label, kind) == {e.src : e \in {x \in edges : x.dst = label /\ x.kind = kind}}

\* Nodes reachable from the nodes of S by one or more edges of the kind
RECURSIVE ReachFrom(_, _, _)
ReachFrom(S, kind, acc) ==
    LET next == UNION {outEdges(n, kind) : n \in S} \ acc
    IN  IF next = {} THEN acc ELSE ReachFrom(next, kind, acc \cup next)

Descendants(root, kind) == ReachFrom({root}, kind, {})

\* The subgraph of the kind reachable from root holds a cycle
CyclicFrom(root, kind) ==
    \E n \in Descendants(root, kind) \cup {root} : n \in Descendants(n, kind)

(***************************************************************************)
(* Families of graphs the loader can have built.                           *)
(***************************************************************************)
RECURSIVE SubsetsUpTo(_, _)
SubsetsUpTo(U, k) ==
    IF k = 0 THEN {{}}
    ELSE LET S == SubsetsUpTo(U, k - 1)
         IN  S \cup {s \cup {e} : s \in S, e \in U}

PlainEdges(N) ==
    {[src |-> u, dst |-> v, kind |-> k, gate |-> NoGate] : u \in N, v \in N, k \in RelKinds}

NotEnumerated == [l \in Labels |-> {}]

NoRules == [l \in Labels |-> <<>>]

(***************************************************************************)
(* MetadataModel.getOrderedModelNodes: the helper's list, reversed.  An    *)
(* error raised by the helper propagates.                                  *)
(***************************************************************************)
\* the reversal left out
getOrderedModelNodes_NoReverse(helperOut) == helperOut

\* an off-by-one reversal
getOrderedModelNodes_DropLast(helperOut) ==
    IF helperOut.status = "ok" THEN Ok(ReverseDropLast(helperOut.value)) ELSE helperOut

\* the helper's error swallowed, an empty list returned
getOrderedModelNodes_Swallow(helperOut) ==
    IF helperOut.status = "ok" THEN Ok(Reverse(helperOut.value)) ELSE Ok(<<>>)

getOrderedModelNodes(helperOut) ==
    IF helperOut.status = "ok" THEN Ok(Reverse(helperOut.value)) ELSE helperOut

(***************************************************************************)
(* schema_generator.get_descendants_by_edge_type(connected, ordered): a    *)
(* depth-first traversal from root along the edges of one kind.  The       *)
(* helper returns the nodes in topological order (a node before the nodes  *)
(* it requires), root excluded: the reverse of the order in which the      *)
(* visits finish.                                                          *)
(***************************************************************************)
get_descendants_by_edge_type(postorder, root) ==
    Reverse(SelectSeq(postorder, LAMBDA n : n # root))

(***************************************************************************)
(* MetadataModel.get_component_requirements: the helper's list as it is.   *)
(***************************************************************************)
\* the list reversed, as getOrderedModelNodes does
get_component_requirements_Reversed(helperOut) ==
    IF helperOut.status = "ok" THEN Ok(Reverse(helperOut.value)) ELSE helperOut

\* the helper's error swallowed, an empty list returned
get_component_requirements_Swallow(helperOut) ==
    IF helperOut.status = "ok" THEN helperOut ELSE Ok(<<>>)

get_component_requirements(helperOut) == helperOut

(***************************************************************************)
(* schema_generator.get_JSONSchema_requirements: the constraint document   *)
(* of a root term, synthesized from the ordered requiresDependency         *)
(* descendants of root.                                                    *)
(*   properties  one constraint per ordered descendant, in that order      *)
(*   required    the dependents that apply regardless of the value of the  *)
(*               node requiring them, and the component marker attribute   *)
(*               when root has required components                         *)
(*   conditional one clause per enumerated node N and value V, requiring   *)
(*               the dependents of N that apply only under V               *)
(***************************************************************************)
\* The "is present" marker attribute of a component (the component-tag field)
ComponentTag == 0

(***************************************************************************)
(* Validation rules.  A rule string is the sequence of the rule tokens it  *)
(* holds, which "::" separates in the text: <<"regex", "list">> is the     *)
(* string "regex::list".  A string holds "::" exactly when it has more     *)
(* than one token.                                                         *)
(***************************************************************************)
RegexRule == "regex"
ListRule == "list"
RangeRule == "range"
RuleTokens == {RegexRule, ListRule, RangeRule}

\* the token kinds the synthesizer compiles into a native constraint
Recognized == {RegexRule, ListRule}

RuleStrings == UNION {[1..k -> RuleTokens] : k \in 1..MaxTokens}
RuleLists == UNION {[1..k -> RuleStrings] : k \in 0..MaxRules}

\* str.split("::")
SplitRule(string) == [k \in 1..Len(string) |-> <<string[k]>>]

\* schema_utils.parse_validation_rules
parse_validation_rules(validation_rules) ==
    IF validation_rules # <<>> /\ Len(validation_rules[1]) > 1
    THEN SplitRule(validation_rules[1])
    ELSE validation_rules

\* a rule string the synthesizer compiles: one token of a recognized kind
IsRule(string, token) == string = <<token>>

HasRule(parsed, token) == \E k \in 1..Len(parsed) : IsRule(parsed[k], token)

\* the property constraint of a field whose rules are the list given
PropertyOf(label, validation_rules) ==
    LET parsed == parse_validation_rules(validation_rules)
    IN  [field |-> label,
         type |-> IF HasRule(parsed, ListRule) THEN "array" ELSE "string",
         enum |-> allowed[label],
         pattern |-> HasRule(parsed, RegexRule),
         opaque |-> SelectSeq(parsed, LAMBDA r : \A t \in Recognized : ~IsRule(r, t))]

DependencyEdges(n) == {e \in edges : e.src = n /\ e.kind = RequiresDependency}

RECURSIVE SetToSeq(_)
SetToSeq(S) ==
    IF S = {} THEN <<>>
    ELSE LET x == CHOOSE y \in S : TRUE IN <<x>> \o SetToSeq(S \ {x})

\* property constraints for the unconditionally required descendants only
PropertiesOf_RequiredOnly(ordered) ==
    LET kept == SelectSeq(ordered,
                    LAMBDA l : \E e \in edges : e.dst = l /\ e.gate = NoGate)
    IN  [k \in 1..Len(kept) |-> PropertyOf(kept[k], rules[kept[k]])]

\* every ordered descendant gets a property constraint
PropertiesOf(ordered) ==
    [k \in 1..Len(ordered) |-> PropertyOf(ordered[k], rules[ordered[k]])]

\* the gate of the edge ignored: every dependent of n
UnconditionalOf_IgnoreGate(n) == {e.dst : e \in DependencyEdges(n)}

\* the dependents of n that apply whatever the value of n
UnconditionalOf(n) == {e.dst : e \in {x \in DependencyEdges(n) : x.gate = NoGate}}

\* the value of the gate ignored: every gated dependent of n, under each value
GatedOf_AnyValue(n, v) == {e.dst : e \in {x \in DependencyEdges(n) : x.gate # NoGate}}

\* the dependents of n that apply under value v of n
GatedOf(n, v) == {e.dst : e \in {x \in DependencyEdges(n) : x.gate = v}}

RECURSIVE RequiredOver(_, _)
RequiredOver(scope, acc) ==
    IF scope = <<>> THEN acc
    ELSE RequiredOver(Tail(scope), acc \cup UnconditionalOf(Head(scope)))

MarkerOf(root) ==
    IF outEdges(root, RequiresComponent) # {} THEN {ComponentTag} ELSE {}

RequiredOf(root, ordered) == RequiredOver(<<root>> \o ordered, {}) \cup MarkerOf(root)

\* the clauses of node n, one per value that gates dependents of its own
RECURSIVE ClausesOf(_, _, _)
ClausesOf(n, values, required) ==
    IF values = <<>> THEN <<>>
    ELSE LET v == Head(values)
             deps == GatedOf(n, v) \ required
             rest == ClausesOf(n, Tail(values), required)
         IN  IF deps = {} THEN rest
             ELSE <<[onField |-> n, onValue |-> v, thenRequires |-> deps]>> \o rest

RECURSIVE ConditionalOver(_, _)
ConditionalOver(scope, required) ==
    IF scope = <<>> THEN <<>>
    ELSE ClausesOf(Head(scope), SetToSeq(allowed[Head(scope)]), required)
            \o ConditionalOver(Tail(scope), required)

get_JSONSchema_requirements(root, ordered) ==
    LET required == RequiredOf(root, ordered)
    IN  [properties |-> PropertiesOf(ordered),
         required |-> required,
         conditional |-> ConditionalOver(<<root>> \o ordered, required)]

\* buildSchema(root): the document of root's ordered descendants; an error of
\* the dependency resolver propagates
buildSchema(root, orderedOut) ==
    IF orderedOut.status = "ok"
    THEN Ok(get_JSONSchema_requirements(root, orderedOut.value))
    ELSE orderedOut

\* What the entry point called hands to its caller
Deliver(call, helperOut) ==
    CASE call.name = "requiredComponents" -> get_component_requirements(helperOut)
      [] call.name \in {"buildSchema", "validate"} ->
            buildSchema(call.root, getOrderedModelNodes(helperOut))
      [] OTHER -> getOrderedModelNodes(helperOut)

\* getOrderedModelNodes(rootNode, relationshipType) is called
OrderedDescendantsCall(root, kind) ==
    /\ pc = "idle"
    /\ op' = [name |-> "orderedDescendants", root |-> root, kind |-> kind]
    /\ IF nodeExists(root)
       THEN /\ pc' = "dfs"
            /\ stack' = <<root>>
            /\ visits' = 1
            /\ result' = NoResult
       ELSE /\ pc' = "done"
            /\ stack' = <<>>
            /\ visits' = 0
            /\ result' = Deliver(op', Fail("NotFound"))
    /\ finished' = {}
    /\ post' = <<>>
    /\ UNCHANGED <<heldVars, bfsVars>>

\* get_JSONSchema_requirements(se, rootNode, ...) is called: it resolves the
\* ordered requiresDependency descendants of root first
BuildSchemaCall(root) ==
    /\ pc = "idle"
    /\ op' = [name |-> "buildSchema", root |-> root, kind |-> RequiresDependency]
    /\ IF nodeExists(root)
       THEN /\ pc' = "dfs"
            /\ stack' = <<root>>
            /\ visits' = 1
            /\ result' = NoResult
       ELSE /\ pc' = "done"
            /\ stack' = <<>>
            /\ visits' = 0
            /\ result' = Deliver(op', Fail("NotFound"))
    /\ finished' = {}
    /\ post' = <<>>
    /\ UNCHANGED <<heldVars, bfsVars>>

\* The traversal follows the edge from the node on top of the path to s
DfsFollow(s) ==
    /\ IF s \in Range(stack)
       THEN /\ pc' = "done"
            /\ result' = Deliver(op, Fail("CycleDetected"))
            /\ UNCHANGED <<stack, visits>>
       ELSE /\ stack' = Append(stack, s)
            /\ visits' = visits + 1
            /\ UNCHANGED <<pc, result>>
    /\ UNCHANGED <<heldVars, op, finished, post, bfsVars>>

\* The traversal follows an edge from the node on top of the path, whatever
\* the order in which the graph lists the edges of a node
DfsVisit ==
    /\ pc = "dfs"
    /\ stack # <<>>
    /\ \E s \in outEdges(stack[Len(stack)], op.kind) \ finished : DfsFollow(s)

\* the order of the listing differs from one call to the next
FirstListed_Unstable(S) ==
    IF last.op = NoOp
    THEN CHOOSE x \in S : \A y \in S : x <= y
    ELSE CHOOSE x \in S : \A y \in S : x >= y

\* The graph lists the edges of a node in one order, the same at every
\* call: the order of the labels
FirstListed(S) == CHOOSE x \in S : \A y \in S : x <= y

\* The traversal follows the first edge listed that leads to an unfinished node
DfsVisitListed ==
    /\ pc = "dfs"
    /\ stack # <<>>
    /\ outEdges(stack[Len(stack)], op.kind) \ finished # {}
    /\ DfsFollow(FirstListed(outEdges(stack[Len(stack)], op.kind) \ finished))

\* a traversal that consumes the graph: the edges of a finished node are
\* taken out of it
DfsFinish_Consume ==
    /\ pc = "dfs"
    /\ stack # <<>>
    /\ LET top == stack[Len(stack)]
       IN  /\ outEdges(top, op.kind) \subseteq finished
           /\ post' = Append(post, top)
           /\ finished' = finished \cup {top}
           /\ stack' = SubSeq(stack, 1, Len(stack) - 1)
           /\ edges' = {e \in edges : ~(e.src = top /\ e.kind = op.kind)}
           /\ IF Len(stack) = 1
              THEN /\ pc' = IF op.name = "validate" THEN "schema" ELSE "done"
                   /\ result' = Deliver(op, Ok(get_descendants_by_edge_type(post', op.root)))
              ELSE UNCHANGED <<pc, result>>
    /\ UNCHANGED <<nodes, allowed, rules, rowVars, last, other, configVars, op, visits,
                   bfsVars>>

\* Every node the top of the path requires is finished: its visit finishes
DfsFinish ==
    /\ pc = "dfs"
    /\ stack # <<>>
    /\ LET top == stack[Len(stack)]
       IN  /\ outEdges(top, op.kind) \subseteq finished
           /\ post' = Append(post, top)
           /\ finished' = finished \cup {top}
           /\ stack' = SubSeq(stack, 1, Len(stack) - 1)
           /\ IF Len(stack) = 1
              THEN /\ pc' = IF op.name = "validate" THEN "schema" ELSE "done"
                   /\ result' = Deliver(op, Ok(get_descendants_by_edge_type(post', op.root)))
              ELSE UNCHANGED <<pc, result>>
    /\ UNCHANGED <<heldVars, op, visits, bfsVars>>

(***************************************************************************)
(* schema_generator.get_component_requirements: the transitive closure of  *)
(* the requiresComponent edges from the source component, breadth-first.   *)
(* Each component is expanded once (visited-set, first visit wins).  An    *)
(* edge that leads back to a component from which the one being expanded   *)
(* was reached closes a cycle.                                             *)
(***************************************************************************)
\* Components reached from S along the edges of the components expanded so far
RECURSIVE ReachExpanded(_, _)
ReachExpanded(S, acc) ==
    LET next == UNION {outEdges(n, RequiresComponent) : n \in S \cap expanded} \ acc
    IN  IF next = {} THEN acc ELSE ReachExpanded(next, acc \cup next)

\* s lies on a path that leads to n: the edge n -> s revisits it
OnCurrentPath(s, n) == s = n \/ n \in ReachExpanded({s}, {})

\* get_component_requirements(source_component) is called
RequiredComponentsCall(source) ==
    /\ pc = "idle"
    /\ op' = [name |-> "requiredComponents", root |-> source, kind |-> RequiresComponent]
    /\ IF nodeExists(source)
       THEN /\ pc' = "bfs"
            /\ queue' = <<source>>
            /\ seen' = {source}
            /\ result' = NoResult
       ELSE /\ pc' = "done"
            /\ queue' = <<>>
            /\ seen' = {}
            /\ result' = Deliver(op', Fail("NotFound"))
    /\ expanded' = {}
    /\ order' = <<>>
    /\ visits' = 0
    /\ UNCHANGED <<heldVars, dfsVars>>

\* The component at the head of the queue is expanded
BfsExpand ==
    /\ pc = "bfs"
    /\ queue # <<>>
    /\ LET n == Head(queue)
           S == outEdges(n, RequiresComponent)
       IN  /\ visits' = visits + 1
           /\ IF \E s \in S : OnCurrentPath(s, n)
              THEN /\ pc' = "done"
                   /\ result' = Deliver(op, Fail("CycleDetected"))
                   /\ UNCHANGED bfsVars
              ELSE \E new \in Orderings(S \ seen) :
                     /\ order' = order \o new
                     /\ queue' = Tail(queue) \o new
                     /\ seen' = seen \cup S
                     /\ expanded' = expanded \cup {n}
                     /\ IF queue' = <<>>
                        THEN /\ pc' = "done"
                             /\ result' = Deliver(op, Ok(order'))
                        ELSE UNCHANGED <<pc, result>>
    /\ UNCHANGED <<heldVars, op, dfsVars>>

\* The caller has taken the outcome; the next call may start
Return ==
    /\ pc = "done"
    /\ pc' = "idle"
    /\ op' = NoOp
    /\ result' = NoResult
    /\ stack' = <<>>
    /\ finished' = {}
    /\ post' = <<>>
    /\ visits' = 0
    /\ queue' = <<>>
    /\ seen' = {}
    /\ expanded' = {}
    /\ order' = <<>>
    /\ jsonSchema' = NoSchema
    /\ annotations' = <<>>
    /\ recordIndex' = 0
    /\ errorPositions' = <<>>
    /\ UNCHANGED <<graphVars, configVars, last, other>>

\* The caller has taken the outcome and keeps it; the next call may start
ReturnKeep ==
    /\ pc = "done"
    /\ last' = [op |-> op, result |-> result]
    /\ pc' = "idle"
    /\ op' = NoOp
    /\ result' = NoResult
    /\ stack' = <<>>
    /\ finished' = {}
    /\ post' = <<>>
    /\ visits' = 0
    /\ queue' = <<>>
    /\ seen' = {}
    /\ expanded' = {}
    /\ order' = <<>>
    /\ jsonSchema' = NoSchema
    /\ annotations' = <<>>
    /\ recordIndex' = 0
    /\ errorPositions' = <<>>
    /\ UNCHANGED <<graphVars, configVars, other>>

\* No call is in progress
IdleCall ==
    /\ pc = "idle"
    /\ op = NoOp
    /\ result = NoResult
    /\ stack = <<>>
    /\ finished = {}
    /\ post = <<>>
    /\ visits = 0
    /\ queue = <<>>
    /\ seen = {}
    /\ expanded = {}
    /\ order = <<>>
    /\ jsonSchema = NoSchema
    /\ annotations = <<>>
    /\ recordIndex = 0
    /\ errorPositions = <<>>
    /\ last = NoLast
    /\ other = IdleLocals
    /\ frames = <<>>
    /\ loads = 0

(***************************************************************************)
(* MetadataModel.validateModelManifest.  Each record of the manifest is    *)
(* handed to jsonschema.validate, which raises one ValidationError for a   *)
(* record that violates the schema; the diagnostic of the record is        *)
(* recovered from the text of the error with two regular expressions.      *)
(*                                                                         *)
(* A text is the sequence of its pieces: the characters that the regular   *)
(* expressions look for (quote, brackets, the list separator) are pieces   *)
(* of their own, the text between them is one piece.                       *)
(***************************************************************************)
Quote == "'"
OpenBracket == "["
CloseBracket == "]"
Separator == ", "

\* the cells of a manifest: an allowed value, a string that is none, a string
\* that holds a bracketed list, a number
Numbers == {"5", "7"}
CellValues == {"v1", "zz", "[x]", "5"}

\* the pieces of the text of a literal
Chars(v) ==
    CASE v = "" -> <<>>
      [] v = "[x]" -> <<OpenBracket, "x", CloseBracket>>
      [] OTHER -> <<v>>

\* repr() of a cell: a string in quotes, a number as it is
Repr(v) == IF v \in Numbers THEN <<v>> ELSE <<Quote>> \o Chars(v) \o <<Quote>>

\* repr() of a field name
ReprField(f) == <<Quote, ToString(f), Quote>>

RECURSIVE ReprItems(_)
ReprItems(list) ==
    IF list = <<>> THEN <<>>
    ELSE IF Len(list) = 1 THEN Repr(list[1])
    ELSE Repr(list[1]) \o <<Separator>> \o ReprItems(Tail(list))

\* repr() of a list of literals
ReprList(list) == <<OpenBracket>> \o ReprItems(list) \o <<CloseBracket>>

\* the regular expression that a rule token of regex form compiles into, and
\* the cells it matches
PatternSource == <<"^v", OpenBracket, "0-9", CloseBracket, "$">>
Matches(v) == v \in Values

\* the types of the schema grammar
JsonTypes == {"string", "number", "array"}

HasType(v, type) ==
    CASE type = "string" -> v \notin Numbers
      [] type = "number" -> v \in Numbers
      [] OTHER -> FALSE

\* jsonschema.validate checks the schema first: SchemaError
IsMalformed(schema) ==
    \E k \in 1..Len(schema.properties) : schema.properties[k].type \notin JsonTypes

\* The ValidationErrors of a record: validator, path of the instance, message
ValidationErrorsOfProperty(annotation, property) ==
    IF property.field \notin DOMAIN annotation THEN {}
    ELSE LET v == annotation[property.field]
             path == <<property.field>>
         IN  (IF HasType(v, property.type) THEN {}
              ELSE {[validator |-> "type", path |-> path, field |-> property.field,
                     validator_value |-> <<property.type>>,
                     message |-> Repr(v) \o <<" is not of type ">>
                                    \o <<Quote, property.type, Quote>>]})
             \cup
             (IF property.enum = {} \/ v \in property.enum THEN {}
              ELSE {[validator |-> "enum", path |-> path, field |-> property.field,
                     validator_value |-> SetToSeq(property.enum),
                     message |-> Repr(v) \o <<" is not one of ">>
                                    \o ReprList(SetToSeq(property.enum))]})
             \cup
             (IF ~property.pattern \/ v \in Numbers \/ Matches(v) THEN {}
              ELSE {[validator |-> "pattern", path |-> path, field |-> property.field,
                     validator_value |-> PatternSource,
                     message |-> Repr(v) \o <<" does not match ">>
                                    \o <<Quote>> \o PatternSource \o <<Quote>>]})

MissingProperty(f) ==
    [validator |-> "required", path |-> <<>>, field |-> f,
     validator_value |-> <<>>,
     message |-> ReprField(f) \o <<" is a required property">>]

ValidationErrors(annotation, schema) ==
    UNION {ValidationErrorsOfProperty(annotation, schema.properties[k]) :
                k \in 1..Len(schema.properties)}
    \cup {MissingProperty(f) : f \in schema.required \ DOMAIN annotation}
    \cup UNION {{MissingProperty(f) : f \in c.thenRequires \ DOMAIN annotation} :
                  c \in {x \in Range(schema.conditional) :
                            /\ x.onField \in DOMAIN annotation
                            /\ annotation[x.onField] = x.onValue}}

\* index of the first piece t of s at or after position from, 0 when none
FirstIndex(s, t, from) ==
    IF \E k \in from..Len(s) : s[k] = t
    THEN CHOOSE k \in from..Len(s) : s[k] = t /\ \A j \in from..(k - 1) : s[j] # t
    ELSE 0

\* re.compile(open + '(.*?)' + close).findall(s)
RECURSIVE findall(_, _, _)
findall(s, open, close) ==
    LET a == FirstIndex(s, open, 1)
        b == IF a = 0 THEN 0 ELSE FirstIndex(s, close, a + 1)
    IN  IF b = 0 THEN <<>>
        ELSE <<SubSeq(s, a + 1, b - 1)>> \o findall(SubSeq(s, b + 1, Len(s)), open, close)

\* str.replace('\'', '')
RemoveQuotes(s) == SelectSeq(s, LAMBDA t : t # Quote)

\* str.split(", ")
RECURSIVE split(_)
split(s) ==
    LET j == FirstIndex(s, Separator, 1)
    IN  IF j = 0 THEN <<s>>
        ELSE <<SubSeq(s, 1, j - 1)>> \o split(SubSeq(s, j + 1, Len(s)))

\* errors[-2] of str(e): "On instance" and the path of the instance
ErrorDetailLine(e) ==
    <<"On instance">>
        \o (IF e.path = <<>> THEN <<>>
            ELSE <<OpenBracket>> \o ReprField(e.path[1]) \o <<CloseBracket>>)
        \o <<":">>

\* stringExp.findall(errors[0]) is empty: findall(...)[0] raises IndexError
NoQuotedString(e) == findall(e.message, Quote, Quote) = <<>>

\* the tuple appended to errorPositions for record i and its error e
ErrorPosition(index, e) ==
    LET errorRow == index + 2
        errorValue == findall(e.message, Quote, Quote)[1]
        errorMessage == <<"At row ", ToString(errorRow), ": ">> \o e.message
        listed == findall(errorMessage, OpenBracket, CloseBracket)
        allowedValues == IF listed # <<>> THEN split(RemoveQuotes(listed[1])) ELSE <<>>
        errorDetail == <<"At term">> \o Tail(ErrorDetailLine(e))
        terms == findall(errorDetail, OpenBracket, CloseBracket)
        errorTerms == IF terms # <<>> THEN split(RemoveQuotes(terms[1]))[1] ELSE <<>>
    IN  [errorRow |-> errorRow, errorTerms |-> errorTerms,
         errorValue |-> errorValue, allowedValues |-> allowedValues]

\* the new diagnostic is put before the ones collected
append_AtFront(list, item) == <<item>> \o list

\* errorPositions.append(...)
append(list, item) == Append(list, item)

\* validateModelManifest(manifestPath, rootNode, jsonSchema) is called; when
\* no schema is given, the schema of rootNode is synthesized first
ValidateCall(root, supplied) ==
    /\ pc = "idle"
    /\ op' = [name |-> "validate", root |-> root, kind |-> RequiresDependency]
    /\ jsonSchema' = supplied
    /\ IF supplied # NoSchema
       THEN /\ pc' = "schema"
            /\ stack' = <<>>
            /\ visits' = 0
            /\ result' = Ok(supplied)
       ELSE IF nodeExists(root)
       THEN /\ pc' = "dfs"
            /\ stack' = <<root>>
            /\ visits' = 1
            /\ result' = NoResult
       ELSE /\ pc' = "done"
            /\ stack' = <<>>
            /\ visits' = 0
            /\ result' = Deliver(op', Fail("NotFound"))
    /\ finished' = {}
    /\ post' = <<>>
    /\ UNCHANGED <<graphVars, configVars, bfsVars, annotations, recordIndex, errorPositions,
                   last, other>>

\* The schema is at hand; the manifest is read: one record for each of its rows
ReadManifest(manifest) ==
    /\ pc = "schema"
    /\ jsonSchema' = result.value
    /\ annotations' = manifest
    /\ errorPositions' = <<>>
    /\ recordIndex' = 0
    /\ result' = NoResult
    /\ pc' = "rows"
    /\ UNCHANGED <<graphVars, configVars, op, dfsVars, visits, bfsVars, last, other>>

\* One iteration of the loop over the records: validate(instance, schema)
ValidateRecord ==
    /\ pc = "rows"
    /\ recordIndex < Len(annotations)
    /\ LET annotation == annotations[recordIndex + 1]
       IN  IF IsMalformed(jsonSchema)
           THEN /\ pc' = "done"
                /\ result' = Fail("MalformedSchema")
                /\ UNCHANGED <<recordIndex, errorPositions>>
           ELSE IF ValidationErrors(annotation, jsonSchema) = {}
           THEN /\ recordIndex' = recordIndex + 1
                /\ UNCHANGED <<pc, result, errorPositions>>
           ELSE \E e \in ValidationErrors(annotation, jsonSchema) :
                  IF NoQuotedString(e)
                  THEN /\ pc' = "done"
                       /\ result' = Fail("IndexError")
                       /\ UNCHANGED <<recordIndex, errorPositions>>
                  ELSE /\ errorPositions' =
                             append(errorPositions, ErrorPosition(recordIndex, e))
                       /\ recordIndex' = recordIndex + 1
                       /\ UNCHANGED <<pc, result>>
    /\ UNCHANGED <<graphVars, configVars, op, dfsVars, visits, bfsVars, jsonSchema,
                   annotations, last, other>>

\* return errorPositions
ValidateReturn ==
    /\ pc = "rows"
    /\ recordIndex = Len(annotations)
    /\ pc' = "done"
    /\ result' = Ok(errorPositions)
    /\ UNCHANGED <<graphVars, configVars, op, dfsVars, visits, bfsVars, rowVars, last, other>>

(***************************************************************************)
(* The dependency resolver on every graph of at most MaxEdges edges.       *)
(***************************************************************************)
InitResolver ==
    /\ \E n \in 0..NumLabels :
         /\ nodes = 1..n
         /\ edges \in SubsetsUpTo(PlainEdges(1..n), MaxEdges)
    /\ allowed = NotEnumerated
    /\ rules = NoRules
    /\ IdleCall
    /\ Unconfigured

NextResolver ==
    \/ \E root \in Labels, kind \in RelKinds : OrderedDescendantsCall(root, kind)
    \/ DfsVisit
    \/ DfsFinish
    \/ Return

SpecResolver == InitResolver /\ [][NextResolver]_vars

(***************************************************************************)
(* The component requirement resolver on the same graphs.                  *)
(***************************************************************************)
NextComponents ==
    \/ \E source \in Labels : RequiredComponentsCall(source)
    \/ BfsExpand
    \/ Return

SpecComponents == InitResolver /\ [][NextComponents]_vars

SpecComponentsFair == SpecComponents /\ WF_vars(BfsExpand)

(***************************************************************************)
(* The schema synthesizer on graphs whose requiresDependency edges may be  *)
(* gated on a value of their source, which is then an enumerated node.     *)
(***************************************************************************)
Pairs(N) == {p \in N \X N : p[1] # p[2]}

DependencyEdge(p, g) ==
    [src |-> p[1], dst |-> p[2], kind |-> RequiresDependency, gate |-> g]

ComponentEdge(u, v) ==
    [src |-> u, dst |-> v, kind |-> RequiresComponent, gate |-> NoGate]

InitSchema ==
    /\ \E n \in 1..NumLabels :
         /\ nodes = 1..n
         /\ \E P \in SubsetsUpTo(Pairs(1..n), MaxEdges) :
              \E g \in [P -> {NoGate} \cup Values] :
                \E C \in {{}} \cup {{ComponentEdge(1, v)} : v \in {n} \ {1}} :
                  /\ edges = {DependencyEdge(p, g[p]) : p \in P} \cup C
                  /\ allowed = [l \in Labels |->
                        IF \E p \in P : p[1] = l /\ g[p] # NoGate THEN Values ELSE {}]
    /\ rules = NoRules
    /\ IdleCall
    /\ Unconfigured

NextSchema ==
    \/ \E root \in Labels : BuildSchemaCall(root)
    \/ DfsVisit
    \/ DfsFinish
    \/ Return

SpecSchema == InitSchema /\ [][NextSchema]_vars

SpecResolverFair == SpecResolver /\ WF_vars(DfsVisit \/ DfsFinish)

(***************************************************************************)
(* The schema synthesizer called again for the root of the previous call,  *)
(* on the same graphs.                                                     *)
(***************************************************************************)
BuildSchemaAgain ==
    /\ last.op.name = "buildSchema"
    /\ BuildSchemaCall(last.op.root)

NextSchemaAgain ==
    \/ \E root \in Labels : last = NoLast /\ BuildSchemaCall(root)
    \/ BuildSchemaAgain
    \/ DfsVisitListed
    \/ DfsFinish
    \/ ReturnKeep

SpecSchemaAgain == InitSchema /\ [][NextSchemaAgain]_vars

(***************************************************************************)
(* The record validator.  The graph is a chain 1 -> 2 -> ... in which 1    *)
(* requires 2 whatever its value and every later edge is required either   *)
(* whatever the value of its source or under the value "v1" of it; 2 and   *)
(* the sources of the gated edges are enumerated; the last node of the     *)
(* chain may carry a rule.  The manifest has the same columns in every     *)
(* record, as a table has.  The schema is the one of rootNode or a         *)
(* document the caller supplies, rootNode the head of the chain.           *)
(***************************************************************************)
Gated == "v1"

\* the component the manifest is of: the head of the chain
Component == CHOOSE l \in Labels : \A x \in Labels : l <= x

RuleChoices == {<<>>, <<<<RegexRule>>>>, <<<<ListRule>>>>}

InitValidate ==
    /\ nodes = Labels
    /\ \E m \in 1..(NumLabels - 1) :
         \E g \in [2..m -> {NoGate, Gated}], r \in RuleChoices :
           /\ edges = {DependencyEdge(<<1, 2>>, NoGate)}
                        \cup {DependencyEdge(<<k, k + 1>>, g[k]) : k \in 2..m}
           /\ allowed = [l \in Labels |->
                            IF l = 2 \/ (l \in 2..m /\ g[l] = Gated) THEN Values ELSE {}]
           /\ rules = [l \in Labels |-> IF l = m + 1 THEN r ELSE <<>>]
    /\ IdleCall
    /\ Unconfigured

\* The tables of at most MaxCells cells; a table without columns has no rows
Manifests ==
    {<<>>} \cup
    UNION {UNION {[1..n -> [columns -> CellValues]] :
                    columns \in {c \in SubsetsUpTo(Labels, MaxCells) :
                                    c # {} /\ n * Cardinality(c) <= MaxCells}} :
              n \in 1..MaxCells}

\* a document with an enumeration of numbers
NumericEnumSchema ==
    [properties |-> <<[field |-> 1, type |-> "number", enum |-> {"7"},
                       pattern |-> FALSE, opaque |-> <<>>]>>,
     required |-> {}, conditional |-> <<>>]

\* a document whose property names a type that is none of the grammar
MalformedSchema ==
    [properties |-> <<[field |-> 1, type |-> "text", enum |-> {},
                       pattern |-> FALSE, opaque |-> <<>>]>>,
     required |-> {}, conditional |-> <<>>]

SuppliedSchemas == {NumericEnumSchema, MalformedSchema}

NextValidate ==
    \/ \E supplied \in {NoSchema} \cup SuppliedSchemas : ValidateCall(Component, supplied)
    \/ DfsVisit
    \/ DfsFinish
    \/ /\ pc = "schema"
       /\ \E manifest \in Manifests : ReadManifest(manifest)
    \/ ValidateRecord
    \/ ValidateReturn
    \/ Return

SpecValidate == InitValidate /\ [][NextValidate]_vars

(***************************************************************************)
(* The four core operations, called one after the other in any order, on   *)
(* the rings: graphs whose edges, of either kind, lead from a node to the  *)
(* next one and from the last node to the first.                           *)
(***************************************************************************)
RingEdges(n) ==
    {[src |-> u, dst |-> (u % n) + 1, kind |-> k, gate |-> NoGate] :
        u \in 1..n, k \in RelKinds}

InitCore ==
    /\ \E n \in 0..NumLabels :
         /\ nodes = 1..n
         /\ edges \in SUBSET RingEdges(n)
    /\ allowed = NotEnumerated
    /\ rules = NoRules
    /\ IdleCall
    /\ Unconfigured

\* the tables of one cell at most
CoreManifests ==
    {m \in Manifests : Len(m) <= 1 /\ \A k \in 1..Len(m) : Cardinality(DOMAIN m[k]) = 1}

NextCore ==
    \/ \E root \in Labels, kind \in RelKinds : OrderedDescendantsCall(root, kind)
    \/ \E source \in Labels : RequiredComponentsCall(source)
    \/ \E root \in Labels : BuildSchemaCall(root)
    \/ \E root \in Labels, supplied \in {NoSchema} \cup SuppliedSchemas :
         ValidateCall(root, supplied)
    \/ DfsVisit
    \/ DfsFinish
    \/ BfsExpand
    \/ /\ pc = "schema"
       /\ \E manifest \in CoreManifests : ReadManifest(manifest)
    \/ ValidateRecord
    \/ ValidateReturn
    \/ Return

SpecCore == InitCore /\ [][NextCore]_vars

(***************************************************************************)
(* Two calls in progress at the same time on one graph.  The variables     *)
(* hold the locals of the call that runs; other holds the locals of the    *)
(* call that waits.  Nothing but the graph is common to the two.           *)
(***************************************************************************)
Locals ==
    [pc |-> pc, op |-> op, stack |-> stack, finished |-> finished, post |-> post,
     visits |-> visits, queue |-> queue, seen |-> seen, expanded |-> expanded,
     order |-> order, jsonSchema |-> jsonSchema, annotations |-> annotations,
     recordIndex |-> recordIndex, errorPositions |-> errorPositions,
     result |-> result]

InProgress(position) == position \in {"dfs", "bfs", "schema", "rows"}

\* last once two calls have been in progress at the same time
Overlapped == [op |-> NoOp, result |-> Ok("overlapped")]

\* the set of finished nodes is one for the two calls
Switch_SharedFinished ==
    /\ other' = Locals
    /\ pc' = other.pc
    /\ op' = other.op
    /\ stack' = other.stack
    /\ finished' = finished
    /\ post' = other.post
    /\ visits' = other.visits
    /\ queue' = other.queue
    /\ seen' = other.seen
    /\ expanded' = other.expanded
    /\ order' = other.order
    /\ jsonSchema' = other.jsonSchema
    /\ annotations' = other.annotations
    /\ recordIndex' = other.recordIndex
    /\ errorPositions' = other.errorPositions
    /\ result' = other.result
    /\ last' = IF InProgress(pc) /\ InProgress(other.pc) THEN Overlapped ELSE last
    /\ UNCHANGED <<graphVars, configVars>>

\* The call that runs is suspended wherever it is and the other one resumes
Switch ==
    /\ other' = Locals
    /\ pc' = other.pc
    /\ op' = other.op
    /\ stack' = other.stack
    /\ finished' = other.finished
    /\ post' = other.post
    /\ visits' = other.visits
    /\ queue' = other.queue
    /\ seen' = other.seen
    /\ expanded' = other.expanded
    /\ order' = other.order
    /\ jsonSchema' = other.jsonSchema
    /\ annotations' = other.annotations
    /\ recordIndex' = other.recordIndex
    /\ errorPositions' = other.errorPositions
    /\ result' = other.result
    /\ last' = IF InProgress(pc) /\ InProgress(other.pc) THEN Overlapped ELSE last
    /\ UNCHANGED <<graphVars, configVars>>

\* each of the two makes one call; validate synthesizes the schema of the
\* component
NextConcurrent ==
    \/ \E root \in Labels, kind \in RelKinds : OrderedDescendantsCall(root, kind)
    \/ \E source \in Labels : RequiredComponentsCall(source)
    \/ \E root \in Labels : BuildSchemaCall(root)
    \/ ValidateCall(Component, NoSchema)
    \/ DfsVisit
    \/ DfsFinish
    \/ BfsExpand
    \/ /\ pc = "schema"
       /\ \E manifest \in CoreManifests : ReadManifest(manifest)
    \/ ValidateRecord
    \/ ValidateReturn
    \/ Switch

SpecConcurrent == InitCore /\ [][NextConcurrent]_vars

(***************************************************************************)
(* What a call returns when it runs alone, computed from its arguments and *)
(* the graph: every outcome of every order in which the graph may list the *)
(* edges of a node, and of every error the validator may raise for a       *)
(* record.                                                                 *)
(***************************************************************************)
\* the outcomes of the visit of the last node of path, and of the visits
\* that follow it on the path
RECURSIVE DfsAlone(_, _, _, _)
DfsAlone(kind, path, done, emitted) ==
    LET top == path[Len(path)]
        todo == outEdges(top, kind) \ done
    IN  IF todo = {}
        THEN IF Len(path) = 1
             THEN {[status |-> "ok", done |-> done \cup {top}, post |-> Append(emitted, top)]}
             ELSE DfsAlone(kind, SubSeq(path, 1, Len(path) - 1), done \cup {top},
                           Append(emitted, top))
        ELSE UNION {IF s \in Range(path)
                    THEN {[status |-> "CycleDetected", done |-> done, post |-> emitted]}
                    ELSE DfsAlone(kind, Append(path, s), done, emitted) : s \in todo}

DescendantsAlone(call) ==
    IF ~nodeExists(call.root)
    THEN {Fail("NotFound")}
    ELSE {IF o.status = "ok"
          THEN Ok(get_descendants_by_edge_type(o.post, call.root))
          ELSE Fail(o.status) : o \in DfsAlone(call.kind, <<call.root>>, {}, <<>>)}

\* Components reached from S along the edges of the components of done
RECURSIVE ReachAlone(_, _, _)
ReachAlone(done, S, acc) ==
    LET next == UNION {outEdges(n, RequiresComponent) : n \in S \cap done} \ acc
    IN  IF next = {} THEN acc ELSE ReachAlone(done, next, acc \cup next)

RECURSIVE BfsAlone(_, _, _, _)
BfsAlone(waiting, reached, done, listed) ==
    LET n == Head(waiting)
        S == outEdges(n, RequiresComponent)
    IN  IF \E s \in S : s = n \/ n \in ReachAlone(done, {s}, {})
        THEN {Fail("CycleDetected")}
        ELSE UNION {IF Tail(waiting) \o new = <<>>
                    THEN {Ok(listed \o new)}
                    ELSE BfsAlone(Tail(waiting) \o new, reached \cup S, done \cup {n},
                                  listed \o new) : new \in Orderings(S \ reached)}

ComponentsAlone(call) ==
    IF ~nodeExists(call.root)
    THEN {Fail("NotFound")}
    ELSE BfsAlone(<<call.root>>, {call.root}, {}, <<>>)

\* the outcomes of the loop over the records from the record at index on
RECURSIVE ReportsAlone(_, _, _, _)
ReportsAlone(schema, records, index, positions) ==
    IF index = Len(records)
    THEN {Ok(positions)}
    ELSE IF IsMalformed(schema)
    THEN {Fail("MalformedSchema")}
    ELSE LET E == ValidationErrors(records[index + 1], schema)
         IN  IF E = {}
             THEN ReportsAlone(schema, records, index + 1, positions)
             ELSE UNION {IF NoQuotedString(e)
                         THEN {Fail("IndexError")}
                         ELSE ReportsAlone(schema, records, index + 1,
                                  append(positions, ErrorPosition(index, e))) : e \in E}

\* What the call of the locals t returns alone; the manifest of a validate
\* call is the one it has read
ResultsAlone(t) ==
    LET helped == IF t.op.name = "requiredComponents"
                  THEN ComponentsAlone(t.op)
                  ELSE DescendantsAlone(t.op)
        delivered == {Deliver(t.op, h) : h \in helped}
    IN  IF t.op.name = "validate"
        THEN UNION {IF d.status = "ok"
                    THEN ReportsAlone(d.value, t.annotations, 0, <<>>)
                    ELSE {d} : d \in delivered}
        ELSE delivered

(***************************************************************************)
(* The schema synthesizer on a chain of requiresDependency edges whose     *)
(* nodes carry validation rules: one node any list of rule strings, each   *)
(* of the others none or the regex rule.                                   *)
(***************************************************************************)
ChainEdges(m) == {DependencyEdge(<<k, k + 1>>, NoGate) : k \in 1..m}

InitRules ==
    /\ nodes = Labels
    /\ \E m \in 0..(NumLabels - 1) : edges = ChainEdges(m)
    /\ allowed = NotEnumerated
    /\ \E focus \in Labels, raw \in RuleLists, others \in [Labels -> {<<>>, <<<<RegexRule>>>>}] :
         rules = [l \in Labels |-> IF l = focus THEN raw ELSE others[l]]
    /\ IdleCall
    /\ Unconfigured

SpecRules == InitRules /\ [][NextSchema]_vars

(***************************************************************************)
(* The utility functions: a call takes its arguments and returns or raises *)
(* in one step.  The schema graph has no part in them: it is empty.        *)
(***************************************************************************)
NoGraph ==
    /\ nodes = {}
    /\ edges = {}
    /\ allowed = NotEnumerated
    /\ rules = NoRules

\* The function of the call is applied to the arguments of the call
Apply(call, outcome) ==
    /\ pc = "idle"
    /\ op' = call
    /\ result' = outcome
    /\ pc' = "done"
    /\ UNCHANGED <<heldVars, dfsVars, visits, bfsVars>>

(***************************************************************************)
(* schema_utils.parse_validation_rules on every list of rule strings.      *)
(***************************************************************************)
ParseRulesCall(validation_rules) ==
    Apply([name |-> "parse_validation_rules", validation_rules |-> validation_rules],
          Ok(parse_validation_rules(validation_rules)))

InitParse == NoGraph /\ Unconfigured /\ IdleCall

NextParse ==
    \/ \E validation_rules \in RuleLists : ParseRulesCall(validation_rules)
    \/ Return

SpecParse == InitParse /\ [][NextParse]_vars

(***************************************************************************)
(* df_utils.normalize_table.  A data frame is its column labels in order,  *)
(* its index labels in order and its rows, each a value per column label.  *)
(***************************************************************************)
ColumnNames == {"id", "x", "index"}
Cells == {"a", "b"}

\* the label DataFrame.reset_index gives the column that holds the old index
IndexLabel(columns) == IF "index" \in Range(columns) THEN "level_0" ELSE "index"

RangeIndex(n) == [k \in 1..n |-> k - 1]

ColumnLists ==
    UNION {{c \in [1..n -> ColumnNames] : IsInjective(c)} : n \in 1..MaxColumns}

\* the frames of at most MaxRows rows; the index is the default one or the
\* one left when the first row of a longer frame was dropped
DataFrames ==
    UNION {UNION {{[columns |-> c, index |-> [k \in 1..n |-> k - 1 + shift], rows |-> r] :
                      r \in [1..n -> [Range(c) -> Cells]], shift \in 0..1} :
                  c \in ColumnLists} : n \in 0..MaxRows}

\* DataFrame.reset_index(): the index becomes the first column, the rows are
\* numbered anew
reset_index(df) ==
    LET label == IndexLabel(df.columns)
    IN  [columns |-> <<label>> \o df.columns,
         index |-> RangeIndex(Len(df.rows)),
         rows |-> [k \in 1..Len(df.rows) |->
                     [c \in Range(df.columns) \cup {label} |->
                         IF c = label THEN df.index[k] ELSE df.rows[k][c]]]]

\* positions of the rows that are the first with their value of the column
FirstOccurrences(df, column) ==
    {k \in 1..Len(df.rows) : \A j \in 1..(k - 1) : df.rows[j][column] # df.rows[k][column]}

RECURSIVE Ascending(_)
Ascending(S) ==
    IF S = {} THEN <<>>
    ELSE LET least == CHOOSE x \in S : \A y \in S : x <= y
         IN  <<least>> \o Ascending(S \ {least})

\* DataFrame.drop_duplicates(subset=[column]), column a column of the frame
drop_duplicates(df, column) ==
    LET kept == Ascending(FirstOccurrences(df, column))
    IN  [columns |-> df.columns,
         index |-> [k \in 1..Len(kept) |-> df.index[kept[k]]],
         rows |-> [k \in 1..Len(kept) |-> df.rows[kept[k]]]]

\* DataFrame.drop(columns=[column]), column a column of the frame
drop(df, column) ==
    [columns |-> SelectSeq(df.columns, LAMBDA c : c # column),
     index |-> df.index,
     rows |-> [k \in 1..Len(df.rows) |->
                 [c \in Range(df.columns) \ {column} |-> df.rows[k][c]]]]

\* normalize_table(df, primary_key).  df is rebound to the frame with the
\* index as a column; drop_duplicates raises KeyError when primary_key is
\* not a column of it, and then that frame is returned.  Otherwise df_norm is
\* bound to the frame without duplicates, then rebound to df without the
\* column "index", which reset_index has added or df had before
normalize_table(df, primary_key) ==
    LET reset == reset_index(df)
    IN  IF primary_key \notin Range(reset.columns)
        THEN Ok(reset)
        ELSE LET df_norm == drop_duplicates(reset, primary_key)
             IN  Ok(drop(reset, "index"))

NormalizeCall(df, primary_key) ==
    Apply([name |-> "normalize_table", df |-> df, primary_key |-> primary_key],
          normalize_table(df, primary_key))

InitNormalize == NoGraph /\ Unconfigured /\ IdleCall

NextNormalize ==
    \/ /\ pc = "idle"
       /\ \E df \in DataFrames, primary_key \in ColumnNames : NormalizeCall(df, primary_key)
    \/ Return

SpecNormalize == InitNormalize /\ [][NextNormalize]_vars

(***************************************************************************)
(* schema_utils.get_label_from_display_name.  A display name is the        *)
(* sequence of its characters.                                             *)
(***************************************************************************)
NameChars == {"a", "A", " ", "-", "_"}
Whitespace == {" "}
DisplayNames == UNION {[1..n -> NameChars] : n \in 0..MaxNameLen}

EntryTypes == {"class", "Class", "property", "PROPERTY", "edge"}
DataModelLabels == {"class_label", "display_label"}

\* str.upper() and str.lower() of a character
UpperChar(c) == IF c = "a" THEN "A" ELSE c
LowerChar(c) == IF c = "A" THEN "a" ELSE c

\* entry_type.lower()
LowerCase(entry_type) ==
    CASE entry_type = "Class" -> "class"
      [] entry_type = "PROPERTY" -> "property"
      [] OTHER -> entry_type

\* str.strip(): the whitespace at both ends removed
RECURSIVE LeftStrip(_)
LeftStrip(name) ==
    IF name # <<>> /\ Head(name) \in Whitespace THEN LeftStrip(Tail(name)) ELSE name

Strip(name) == Reverse(LeftStrip(Reverse(LeftStrip(name))))

\* str.translate with a table that maps the characters of S to nothing
RemoveChars(name, S) == SelectSeq(name, LAMBDA c : c \notin S)

\* str.translate with a table that maps every whitespace character to "_"
UnderscoreWhitespace(name) ==
    [k \in 1..Len(name) |-> IF name[k] \in Whitespace THEN "_" ELSE name[k]]

\* re.sub(r"(?:^|_)(.)", upper of the group, string) from position k on:
\* an underscore and the character after it become that character in upper
\* case
RECURSIVE SubFrom(_, _)
SubFrom(name, k) ==
    IF k > Len(name) THEN <<>>
    ELSE IF name[k] = "_" /\ k < Len(name)
    THEN <<UpperChar(name[k + 1])>> \o SubFrom(name, k + 2)
    ELSE <<name[k]>> \o SubFrom(name, k + 1)

\* inflection.camelize(string, uppercase_first_letter = True): the pattern
\* matches at the start of a string that is not empty and takes its first
\* character
CamelizeUpper(name) ==
    IF name = <<>> THEN <<>> ELSE <<UpperChar(name[1])>> \o SubFrom(name, 2)

\* inflection.camelize(string, uppercase_first_letter): string[0] of an
\* empty string raises IndexError
camelize(name, uppercase_first_letter) ==
    IF uppercase_first_letter
    THEN Ok(CamelizeUpper(name))
    ELSE IF name = <<>>
    THEN Fail("IndexError")
    ELSE Ok(<<LowerChar(name[1])>> \o Tail(CamelizeUpper(name)))

get_property_label_from_display_name(display_name, strict_camel_case) ==
    IF strict_camel_case
    THEN camelize(UnderscoreWhitespace(Strip(display_name)), FALSE)
    ELSE camelize(Strip(RemoveChars(display_name, Whitespace)), FALSE)

get_class_label_from_display_name(display_name, strict_camel_case) ==
    IF strict_camel_case
    THEN camelize(UnderscoreWhitespace(Strip(display_name)), TRUE)
    ELSE camelize(Strip(RemoveChars(display_name, Whitespace)), TRUE)

blacklisted_chars == {"(", ")", ".", " ", "-"}

check_if_display_name_is_valid_label(display_name) ==
    \A c \in blacklisted_chars : c \notin Range(display_name)

\* .translate({ord(x): "" for x in blacklisted_chars}) of a label that was made
Unlisted(made) ==
    IF made.status = "ok" THEN Ok(RemoveChars(made.value, blacklisted_chars)) ELSE made

\* get_label_from_display_name.  With data_model_labels "display_label" and a
\* display name that is no valid label, neither branch binds label when the
\* entry type is neither "class" nor "property", and the warning that
\* formats label raises UnboundLocalError
get_label_from_display_name(display_name, entry_type, strict_camel_case, data_model_labels) ==
    IF data_model_labels = "display_label"
    THEN IF check_if_display_name_is_valid_label(display_name)
         THEN Ok(display_name)
         ELSE CASE LowerCase(entry_type) = "class" ->
                      Unlisted(get_class_label_from_display_name(display_name, FALSE))
                [] LowerCase(entry_type) = "property" ->
                      Unlisted(get_property_label_from_display_name(display_name, FALSE))
                [] OTHER -> Fail("UnboundLocalError")
    ELSE CASE LowerCase(entry_type) = "class" ->
                 get_class_label_from_display_name(display_name, strict_camel_case)
           [] LowerCase(entry_type) = "property" ->
                 get_property_label_from_display_name(display_name, strict_camel_case)
           [] OTHER -> Fail("ValueError")

LabelCall(display_name, entry_type, strict_camel_case, data_model_labels) ==
    Apply([name |-> "get_label_from_display_name", display_name |-> display_name,
           entry_type |-> entry_type, strict_camel_case |-> strict_camel_case,
           data_model_labels |-> data_model_labels],
          get_label_from_display_name(display_name, entry_type, strict_camel_case,
                                      data_model_labels))

InitLabel == NoGraph /\ Unconfigured /\ IdleCall

NextLabel ==
    \/ /\ pc = "idle"
       /\ \E display_name \in DisplayNames, entry_type \in EntryTypes,
             strict_camel_case \in BOOLEAN, data_model_labels \in DataModelLabels :
             LabelCall(display_name, entry_type, strict_camel_case, data_model_labels)
    \/ Return

SpecLabel == InitLabel /\ [][NextLabel]_vars

(***************************************************************************)
(* configuration.Configuration, the object CONFIG of the process.  A call  *)
(* from outside (the access of a field, load_config, get) runs as a stack  *)
(* of calls of the methods of the class: frames.  While pc is "config" the *)
(* innermost call runs; while it is "returning" the value in result is on  *)
(* its way to the caller.  An exception unwinds the stack in one step.     *)
(***************************************************************************)
Fields == {"DATA", "CONFIG_PATH"}
Keys == {"model", "synapse"}
Default == "default"

\* the paths a configuration is looked for at, relative or absolute
Paths == {"config.yml", "/etc/schematic.yml"}

\* os.path.abspath(os.path.expanduser(path)), the working directory "/cwd"
abspath(path) == IF path = "config.yml" THEN "/cwd/config.yml" ELSE path

AbsPaths == {abspath(path) : path \in Paths}

\* what yaml.safe_load returns: a mapping, or None for an empty file
Documents == {None} \cup UNION {{Dict(items) : items \in [K -> {"v"}]} : K \in SUBSET Keys}

\* super().__getattribute__(name)
Field(name) == IF name = "DATA" THEN DATA ELSE CONFIG_PATH

GetAttributeFrame(name, at) == [fn |-> "__getattribute__", name |-> name, at |-> at]
LoadFromEnvFrame(at) == [fn |-> "load_config_from_env", at |-> at]
LoadConfigFrame(config_path, at) == [fn |-> "load_config", config_path |-> config_path, at |-> at]
GetFrame(key, default, at) == [fn |-> "get", key |-> key, default |-> default, at |-> at]

Top == frames[Len(frames)]

\* the exception leaves every call in progress; get catches AttributeError,
\* the first of the classes of "except AttributeError or KeyError", and
\* returns the default
Raise(exception) ==
    /\ frames' = <<>>
    /\ pc' = "done"
    /\ result' = IF exception = "AttributeError" /\ frames[1].fn = "get"
                 THEN Ok(frames[1].default)
                 ELSE Fail(exception)

\* the innermost call, now at the position waiting, calls callee
Invoke(waiting, callee) ==
    IF Len(frames) + 1 > RecursionLimit
    THEN Raise("RecursionError")
    ELSE /\ frames' = Append([frames EXCEPT ![Len(frames)] = waiting], callee)
         /\ UNCHANGED <<pc, result>>

\* the innermost call returns value
ReturnValue(value) ==
    /\ frames' = SubSeq(frames, 1, Len(frames) - 1)
    /\ pc' = "returning"
    /\ result' = Ok(value)

Enter(call, frame) ==
    /\ pc = "idle"
    /\ op' = call
    /\ frames' = <<frame>>
    /\ loads' = 0
    /\ pc' = "config"
    /\ result' = NoResult
    /\ UNCHANGED <<graphVars, rowVars, last, other, DATA, CONFIG_PATH, environ, files,
                   dfsVars, visits, bfsVars>>

\* CONFIG.<name> is evaluated
AccessCall(name) ==
    Enter([name |-> "__getattribute__", field |-> name, was |-> Field(name)],
          GetAttributeFrame(name, "start"))

\* CONFIG.load_config(config_path) is called (the other arguments None)
LoadConfigCall(config_path) ==
    Enter([name |-> "load_config", config_path |-> config_path, was |-> DATA],
          LoadConfigFrame(config_path, "start"))

\* CONFIG.get(key, default) is called
GetCall(key, default) ==
    Enter([name |-> "get", key |-> key, default |-> default, was |-> DATA],
          GetFrame(key, default, "start"))

\* __getattribute__, lines 13-24: the value of the field; a value that is
\* None makes it load the configuration when SCHEMATIC_CONFIG is set and
\* raise AttributeError when it is not
GetAttribute ==
    /\ pc = "config"
    /\ Top.fn = "__getattribute__"
    /\ Top.at = "start"
    /\ IF Field(Top.name) # None
       THEN ReturnValue(Field(Top.name))
       ELSE IF environ # NotSet
       THEN Invoke(GetAttributeFrame(Top.name, "loaded"), LoadFromEnvFrame("start"))
       ELSE Raise("AttributeError")
    /\ UNCHANGED <<graphVars, rowVars, last, other, DATA, CONFIG_PATH, environ, files,
                   loads, op, dfsVars, visits, bfsVars>>

\* load_config_from_env, lines 57-62
LoadConfigFromEnv ==
    /\ pc = "config"
    /\ Top.fn = "load_config_from_env"
    /\ Top.at = "start"
    /\ loads' = loads + 1
    /\ Invoke(LoadFromEnvFrame("return"), LoadConfigFrame(Str(environ), "start"))
    /\ UNCHANGED <<graphVars, rowVars, last, other, DATA, CONFIG_PATH, environ, files,
                   op, dfsVars, visits, bfsVars>>

\* load_config, lines 66-85: without a path the environment names it or
\* ValueError is raised; with a path the file is read, DATA and CONFIG_PATH
\* are bound, and "return self.DATA" evaluates the field DATA
LoadConfig ==
    /\ pc = "config"
    /\ Top.fn = "load_config"
    /\ Top.at = "start"
    /\ IF Top.config_path = None
       THEN /\ IF environ # NotSet
               THEN Invoke(LoadConfigFrame(None, "return"), LoadFromEnvFrame("start"))
               ELSE Raise("ValueError")
            /\ UNCHANGED <<DATA, CONFIG_PATH>>
       ELSE IF files[abspath(Top.config_path.string)] = Missing
       THEN /\ Raise("FileNotFoundError")
            /\ UNCHANGED <<DATA, CONFIG_PATH>>
       ELSE /\ DATA' = files[abspath(Top.config_path.string)]
            /\ CONFIG_PATH' = Str(abspath(Top.config_path.string))
            /\ Invoke(LoadConfigFrame(Top.config_path, "return"),
                      GetAttributeFrame("DATA", "start"))
    /\ UNCHANGED <<graphVars, rowVars, last, other, environ, files, loads, op,
                   dfsVars, visits, bfsVars>>

\* get, line 32: self[key] is __getitem__(key), which evaluates self.DATA
Get ==
    /\ pc = "config"
    /\ Top.fn = "get"
    /\ Top.at = "start"
    /\ Invoke(GetFrame(Top.key, Top.default, "getitem"), GetAttributeFrame("DATA", "start"))
    /\ UNCHANGED <<graphVars, rowVars, last, other, DATA, CONFIG_PATH, environ, files,
                   loads, op, dfsVars, visits, bfsVars>>

\* The value returned reaches the caller.  load_config_from_env and
\* load_config return it in turn; __getattribute__ reads the field again and
\* returns that (lines 16 and 25); __getitem__ subscripts it with the key,
\* which raises KeyError when the key is absent, and get returns the item
ReturnTo ==
    /\ pc = "returning"
    /\ IF frames = <<>>
       THEN /\ pc' = "done"
            /\ UNCHANGED <<frames, result>>
       ELSE CASE Top.fn = "__getattribute__" -> ReturnValue(Field(Top.name))
              [] Top.fn = "get" ->
                    IF Top.key \in DOMAIN result.value.items
                    THEN ReturnValue(result.value.items[Top.key])
                    ELSE Raise("KeyError")
              [] OTHER -> ReturnValue(result.value)
    /\ UNCHANGED <<graphVars, rowVars, last, other, DATA, CONFIG_PATH, environ, files,
                   loads, op, dfsVars, visits, bfsVars>>

\* The process starts: the environment names a path or does not, the files
\* at the paths are what they are, CONFIG = Configuration()
InitConfiguration ==
    /\ NoGraph
    /\ IdleCall
    /\ DATA = None
    /\ CONFIG_PATH = None
    /\ environ \in {NotSet} \cup Paths
    /\ files \in [AbsPaths -> {Missing} \cup Documents]

NextConfiguration ==
    \/ \E name \in Fields : AccessCall(name)
    \/ \E config_path \in {None} \cup {Str(path) : path \in Paths} :
         LoadConfigCall(config_path)
    \/ \E key \in Keys : GetCall(key, Default)
    \/ GetAttribute
    \/ LoadConfigFromEnv
    \/ LoadConfig
    \/ Get
    \/ ReturnTo
    \/ Return

SpecConfiguration == InitConfiguration /\ [][NextConfiguration]_vars

(***************************************************************************)
(* Properties of orderedDescendants (getOrderedModelNodes).                *)
(***************************************************************************)
OrderedCall == op.name = "orderedDescendants"
OrderedDone == pc = "done" /\ OrderedCall
OrderedOk == OrderedDone /\ result.status = "ok"
AcyclicCall == nodeExists(op.root) /\ ~CyclicFrom(op.root, op.kind)
Returned == Range(result.value)

\* The edges of the traversed kind between two returned nodes
InnerEdges ==
    {e \in edges : e.kind = op.kind /\ e.src \in Returned /\ e.dst \in Returned}

\* C1 as stated: on an acyclic subgraph the call succeeds and, for every edge
\* (u -> v) of the kind between two returned nodes, u is at a strictly smaller
\* index than v.
C1_SourceBeforeTarget ==
    (OrderedDone /\ AcyclicCall) =>
        /\ result.status = "ok"
        /\ \A e \in InnerEdges :
             IndexOf(result.value, e.src) < IndexOf(result.value, e.dst)

\* C1 amended: on an acyclic subgraph the call succeeds and, for every edge
\* (u -> v) of the kind between two returned nodes, the required node v is at a
\* strictly smaller index than the node u that requires it.
C1_TargetBeforeSource ==
    (OrderedDone /\ AcyclicCall) =>
        /\ result.status = "ok"
        /\ \A e \in InnerEdges :
             IndexOf(result.value, e.dst) < IndexOf(result.value, e.src)

C1_Witness == OrderedOk /\ AcyclicCall /\ InnerEdges # {}

\* C2: the returned sequence is the reversal of the helper's ordered list, and
\* every returned node without outgoing edges of the kind (a leaf requirement)
\* is before every returned node that reaches it.
C2_LeavesFirst ==
    OrderedOk =>
        /\ result.value = Reverse(get_descendants_by_edge_type(post, op.root))
        /\ \A l \in Returned, a \in Returned :
             (outEdges(l, op.kind) = {} /\ l \in Descendants(a, op.kind)) =>
                 IndexOf(result.value, l) < IndexOf(result.value, a)

C2_Witness ==
    /\ OrderedOk
    /\ Len(result.value) >= 2
    /\ \E l \in Returned, a \in Returned :
         outEdges(l, op.kind) = {} /\ l \in Descendants(a, op.kind)

\* C3: a returned sequence never holds root, never holds a label twice, and
\* its elements are exactly the nodes reachable from root by one or more edges
\* of the kind.
C3_NoRootNoDuplicates ==
    OrderedOk =>
        /\ op.root \notin Returned
        /\ IsInjective(result.value)
        /\ Returned = Descendants(op.root, op.kind)

\* a returned node that is reached along two distinct paths
C3_Witness ==
    /\ OrderedOk
    /\ \E n \in Returned :
         Cardinality(inEdges(n, op.kind) \cap (Returned \cup {op.root})) >= 2

\* C4: a call whose root is absent from the graph ends at once with NotFound,
\* for either kind, hands back no sequence and leaves the graph as it was.
C4_MissingRootNotFound ==
    [][(pc = "idle" /\ op'.name = "orderedDescendants" /\ op'.root \notin nodes) =>
          /\ pc' = "done"
          /\ result' = Fail("NotFound")
          /\ nodes' = nodes /\ edges' = edges /\ allowed' = allowed]_vars

C4_Witness ==
    /\ OrderedDone
    /\ ~nodeExists(op.root)
    /\ result.status = "NotFound"
    /\ edges # {}

\* C5: when the subgraph reachable from root holds a cycle, the traversal
\* enters no more nodes than the graph has, never hands back a sequence, and
\* ends with CycleDetected.
CyclicCall == OrderedCall /\ nodeExists(op.root) /\ CyclicFrom(op.root, op.kind)

C5_CycleDetected ==
    /\ [](CyclicCall =>
            /\ visits <= Cardinality(nodes)
            /\ Len(post) <= visits
            /\ result.status \in {"none", "CycleDetected"}
            /\ (pc = "done" => result = Fail("CycleDetected")))
    /\ ((CyclicCall /\ pc = "dfs") ~> (CyclicCall /\ pc = "done"))

C5_Witness ==
    /\ CyclicCall
    /\ pc = "done"
    /\ result.status = "CycleDetected"
    /\ visits >= 2

(***************************************************************************)
(* Properties of requiredComponents (get_component_requirements).          *)
(***************************************************************************)
ComponentsCall == op.name = "requiredComponents"
ComponentsDone == pc = "done" /\ ComponentsCall

\* Edge distance from the frontier to n, the frontier being at distance d
RECURSIVE DistanceFrom(_, _, _, _)
DistanceFrom(frontier, reached, n, d) ==
    LET next == UNION {outEdges(x, RequiresComponent) : x \in frontier} \ reached
    IN  IF n \in next \/ next = {} THEN d + 1
        ELSE DistanceFrom(next, reached \cup next, n, d + 1)

Distance(source, n) == DistanceFrom({source}, {}, n, 0)

CyclicComponents ==
    ComponentsCall /\ nodeExists(op.root) /\ CyclicFrom(op.root, RequiresComponent)

\* C6: when a requiresComponent cycle is reachable from the source (A -> B,
\* B -> A in particular), the call hands back no sequence and ends with
\* CycleDetected.
C6_ComponentCycleDetected ==
    /\ [](CyclicComponents =>
            /\ result.status \in {"none", "CycleDetected"}
            /\ visits <= Cardinality(nodes)
            /\ (pc = "done" => result = Fail("CycleDetected")))
    /\ ((CyclicComponents /\ pc = "bfs") ~> (CyclicComponents /\ pc = "done"))

\* the cycle A -> B, B -> A, resolved from A
C6_Witness ==
    /\ ComponentsDone
    /\ result.status = "CycleDetected"
    /\ \E b \in nodes :
         /\ b # op.root
         /\ b \in outEdges(op.root, RequiresComponent)
         /\ op.root \in outEdges(b, RequiresComponent)

\* C7: on an acyclic requiresComponent subgraph the call returns exactly the
\* components reachable from the source, each once, the source excluded, and
\* never a component after one that is farther from the source.
C7_BreadthFirstClosure ==
    (ComponentsDone /\ nodeExists(op.root) /\ ~CyclicFrom(op.root, RequiresComponent)) =>
        /\ result.status = "ok"
        /\ Range(result.value) = Descendants(op.root, RequiresComponent)
        /\ IsInjective(result.value)
        /\ op.root \notin Range(result.value)
        /\ \A i, j \in 1..Len(result.value) :
             i < j => Distance(op.root, result.value[i]) <= Distance(op.root, result.value[j])

\* components at two distances, one of them required along two paths
C7_Witness ==
    /\ ComponentsDone
    /\ result.status = "ok"
    /\ \E i, j \in 1..Len(result.value) :
         Distance(op.root, result.value[i]) < Distance(op.root, result.value[j])

(***************************************************************************)
(* Properties of buildSchema (get_JSONSchema_requirements).                *)
(***************************************************************************)
SchemaCall == op.name = "buildSchema"
SchemaOk == pc = "done" /\ SchemaCall /\ result.status = "ok"

\* orderedDescendants(root, requiresDependency) of the call that has ended
OrderedOfCall ==
    getOrderedModelNodes(Ok(get_descendants_by_edge_type(post, op.root))).value

\* root and its ordered descendants
ScopeOfCall == {op.root} \cup Range(OrderedOfCall)

\* the requiresDependency edges between the nodes of the scope
ScopeEdges ==
    {e \in edges : e.kind = RequiresDependency /\ e.src \in ScopeOfCall}

\* root's own unconditional attributes
RootAttributes ==
    {e.dst : e \in {x \in ScopeEdges : x.src = op.root /\ x.gate = NoGate}}

\* the ordered descendants that some node of the scope requires whatever its value
UnconditionalMembers ==
    {d \in Range(OrderedOfCall) : \E e \in ScopeEdges : e.dst = d /\ e.gate = NoGate}

PropertyKeys(doc) == {doc.properties[k].field : k \in 1..Len(doc.properties)}

ClausesOfDoc(doc) == Range(doc.conditional)

\* C8 as stated: required is exactly root's unconditional attributes united
\* with the unconditionally required members of the ordered descendants.
C8_RequiredExactly ==
    SchemaOk => result.value.required = RootAttributes \cup UnconditionalMembers

\* C8 amended: required holds root's unconditional attributes and the
\* unconditionally required members of the ordered descendants, and nothing
\* else but the component marker attribute, which it holds exactly when root
\* has required components.
C8_RequiredUpToMarker ==
    SchemaOk =>
        /\ RootAttributes \cup UnconditionalMembers \subseteq result.value.required
        /\ result.value.required \ (RootAttributes \cup UnconditionalMembers)
              \subseteq {ComponentTag}
        /\ (ComponentTag \in result.value.required
              <=> outEdges(op.root, RequiresComponent) # {})

\* a root with required components, an unconditional attribute and a
\* conditional one
C8_Witness ==
    /\ SchemaOk
    /\ outEdges(op.root, RequiresComponent) # {}
    /\ RootAttributes # {}
    /\ Range(OrderedOfCall) \ UnconditionalMembers # {}

\* C9: every ordered descendant, the only conditionally required ones too,
\* is a key of properties.
C9_DescendantsAreProperties ==
    SchemaOk => Range(OrderedOfCall) \subseteq PropertyKeys(result.value)

\* a descendant that is only conditionally required
C9_Witness ==
    /\ SchemaOk
    /\ \E d \in Range(OrderedOfCall) :
         /\ d \notin result.value.required
         /\ d \in PropertyKeys(result.value)

\* C10: a dependent whose only requirement in the scope is gated on N = V is in
\* thenRequires of a clause on N and V, in no other clause, and not in
\* required; a dependent that a node requires whatever its value is in
\* required and in no clause.
C10_ConditionalOrRequired ==
    SchemaOk =>
        \A e \in ScopeEdges :
            /\ (e.gate # NoGate /\ {x \in ScopeEdges : x.dst = e.dst} = {e}) =>
                  /\ e.dst \notin result.value.required
                  /\ \E c \in ClausesOfDoc(result.value) :
                       c.onField = e.src /\ c.onValue = e.gate /\ e.dst \in c.thenRequires
                  /\ \A c \in ClausesOfDoc(result.value) :
                       e.dst \in c.thenRequires => (c.onField = e.src /\ c.onValue = e.gate)
            /\ (e.gate = NoGate) =>
                  /\ e.dst \in result.value.required
                  /\ \A c \in ClausesOfDoc(result.value) : e.dst \notin c.thenRequires

\* one dependent gated on a value of its source, another required
\* unconditionally although a gated edge leads to it as well
C10_Witness ==
    /\ SchemaOk
    /\ \E e \in ScopeEdges :
         e.gate # NoGate /\ {x \in ScopeEdges : x.dst = e.dst} = {e}
    /\ \E e, f \in ScopeEdges :
         e.gate = NoGate /\ f.gate # NoGate /\ f.dst = e.dst

\* C11: a call of buildSchema for the root of the previous call, on the same
\* graph, ends with the outcome of the previous call, and the fields of the
\* property constraints of a document are the ordered requiresDependency
\* descendants of root, in their order.
PropertyFields(doc) == [k \in 1..Len(doc.properties) |-> doc.properties[k].field]

StripString(string) == SelectSeq(string, LAMBDA t : t \in Recognized)

StripRules(validation_rules) ==
    SelectSeq([k \in 1..Len(validation_rules) |-> StripString(validation_rules[k])],
              LAMBDA r : r # <<>>)

\* the constraints of a property that are enforced
Enforced(property) ==
    [field |-> property.field, type |-> property.type,
     enum |-> property.enum, pattern |-> property.pattern]

\* C12: a call of buildSchema for a root of a graph whose nodes carry rule
\* tokens, unrecognized ones among them, ends with a document, and the
\* enforced constraints of every property of the document are those compiled
\* from the rules of its node with the unrecognized tokens taken out.
C12_UnrecognizedTokenSkipped ==
    (pc = "done" /\ SchemaCall /\ nodeExists(op.root)) =>
        /\ result.status = "ok"
        /\ \A k \in 1..Len(result.value.properties) :
             LET property == result.value.properties[k]
             IN  Enforced(property) =
                    Enforced(PropertyOf(property.field, StripRules(rules[property.field])))

(***************************************************************************)
(* Properties of validate (validateModelManifest).                         *)
(***************************************************************************)
ValidateDone == pc = "done" /\ op.name = "validate"
ValidateOk == ValidateDone /\ result.status = "ok"

\* the positions in a list of diagnostics of those of one row
DiagnosticsOfRow(list, r) == {j \in 1..Len(list) : list[j].errorRow = r}

\* the errors of a record that the diagnostic d can have been recovered from
ErrorsBehind(d) ==
    {e \in ValidationErrors(annotations[d.errorRow - 1], jsonSchema) :
        ~NoQuotedString(e) /\ ErrorPosition(d.errorRow - 2, e) = d}

\* C13: when validate returns, every record has contributed one diagnostic
\* for each constraint it violates: a record that violates k constraints has k
\* diagnostics, whatever the records before it.
C13_BatchSemantics ==
    ValidateOk =>
        \A k \in 1..Len(annotations) :
            Cardinality(DiagnosticsOfRow(result.value, k + 1))
                = Cardinality(ValidationErrors(annotations[k], jsonSchema))

\* C14: on a well-formed schema validate returns, the rows of its diagnostics
\* are exactly the rows i + 2 of the records at 0-based positions i that
\* violate the schema, and when no record does the sequence is empty.
C14_ExactlyInvalidRows ==
    (ValidateDone /\ ~IsMalformed(jsonSchema)) =>
        /\ result.status = "ok"
        /\ {result.value[j].errorRow : j \in 1..Len(result.value)}
              = {k + 1 : k \in {x \in 1..Len(annotations) :
                                    ValidationErrors(annotations[x], jsonSchema) # {}}}
        /\ \A j \in 1..Len(result.value) : result.value[j].errorRow >= 2
        /\ ((\A k \in 1..Len(annotations) :
                 ValidationErrors(annotations[k], jsonSchema) = {})
              => result.value = <<>>)

C16_FailsOnlyMalformedSchema ==
    ValidateDone =>
        IF IsMalformed(jsonSchema)
        THEN result = Fail("MalformedSchema")
        ELSE result.status = "ok"

\* C17: allowedValues of a diagnostic is the allowed-value list of the field
\* when the record violates its enumeration, and empty when it violates a
\* constraint of another kind.
C17_AllowedValuesOfEnumOnly ==
    ValidateOk =>
        \A j \in 1..Len(result.value) :
            \A e \in ErrorsBehind(result.value[j]) :
                result.value[j].allowedValues =
                    IF e.validator = "enum"
                    THEN [k \in 1..Len(e.validator_value) |-> Chars(e.validator_value[k])]
                    ELSE <<>>

\* C18: a record that sets N to V, omits the dependent D required under
\* N = V and violates nothing else has exactly one diagnostic, whose fields
\* name D and whose allowedValues is empty.
C18_MissingDependentNamed ==
    ValidateOk =>
        \A k \in 1..Len(annotations) :
            \A c \in Range(jsonSchema.conditional) :
                \A d \in c.thenRequires :
                    (/\ c.onField \in DOMAIN annotations[k]
                     /\ annotations[k][c.onField] = c.onValue
                     /\ ValidationErrors(annotations[k], jsonSchema) = {MissingProperty(d)})
                    => /\ Cardinality(DiagnosticsOfRow(result.value, k + 1)) = 1
                       /\ \A j \in DiagnosticsOfRow(result.value, k + 1) :
                            /\ result.value[j].errorTerms = <<ToString(d)>>
                            /\ result.value[j].allowedValues = <<>>

(***************************************************************************)
(* Properties of the four operations together.                             *)
(***************************************************************************)
\* C19: no step of a call of orderedDescendants, requiredComponents,
\* buildSchema or validate, whether the call ends with a value, with NotFound
\* or with CycleDetected, changes the nodes, the edges, the allowed values or
\* the rules of the graph.
C19_GraphNeverMutated ==
    [][nodes' = nodes /\ edges' = edges /\ allowed' = allowed /\ rules' = rules]_vars

\* a traversal that has followed edges of the graph and ends with
\* CycleDetected
C19_Witness ==
    /\ pc = "done"
    /\ result.status = "CycleDetected"
    /\ Len(stack) > 1
    /\ edges # {}

\* C20: when two calls are in progress at the same time on one graph,
\* their steps interleaved in any way, each of them returns a result that it
\* returns when it runs alone on that graph.
C20_ConcurrentAsAlone ==
    /\ pc = "done" => result \in ResultsAlone(Locals)
    /\ other.pc = "done" => other.result \in ResultsAlone(other)

\* a validation and a traversal of two nodes or more, both in progress at
\* one time, have both returned a value
C20_Witness ==
    /\ last = Overlapped
    /\ pc = "done"
    /\ other.pc = "done"
    /\ op.name = "validate"
    /\ result.status = "ok"
    /\ result.value # <<>>
    /\ other.op.name = "orderedDescendants"
    /\ other.result.status = "ok"
    /\ Len(other.result.value) > 1

(***************************************************************************)
(* Properties of parse_validation_rules.                                   *)
(***************************************************************************)
\* every element of the list split on "::", the pieces in order
RECURSIVE SplitEach(_)
SplitEach(validation_rules) ==
    IF validation_rules = <<>>
    THEN <<>>
    ELSE SplitRule(Head(validation_rules)) \o SplitEach(Tail(validation_rules))

ContainsDelimiter(string) == Len(string) > 1

\* C27: parse_validation_rules returns the tokens of every element of its
\* input, split on "::", in order and with none lost: no element of the
\* output contains "::", and an input without "::" is returned as it is.
C27_EveryElementSplit ==
    (pc = "done" /\ op.name = "parse_validation_rules") =>
        /\ result.status = "ok"
        /\ result.value = SplitEach(op.validation_rules)
        /\ \A k \in 1..Len(result.value) : ~ContainsDelimiter(result.value[k])
        /\ (\A k \in 1..Len(op.validation_rules) :
                ~ContainsDelimiter(op.validation_rules[k]))
             => result.value = op.validation_rules

(***************************************************************************)
(* Properties of normalize_table.                                          *)
(***************************************************************************)
NormalizeDone == pc = "done" /\ op.name = "normalize_table"

KeyIsColumn == op.primary_key \in Range(op.df.columns)

\* C21: normalize_table(df, primary_key) with primary_key a column of df
\* returns a frame with the columns of df in which no two rows have the same
\* value of primary_key.
C21_DeduplicatedOnKey ==
    (NormalizeDone /\ KeyIsColumn) =>
        /\ result.status = "ok"
        /\ result.value.columns = op.df.columns
        /\ \A j, k \in 1..Len(result.value.rows) :
              result.value.rows[j][op.primary_key] = result.value.rows[k][op.primary_key]
                  => j = k

\* C22: normalize_table(df, primary_key) with primary_key not a column of df
\* raises nothing and returns a frame with the rows and the columns of df,
\* none added.
C22_UnchangedWithoutKey ==
    (NormalizeDone /\ ~KeyIsColumn) =>
        /\ result.status = "ok"
        /\ result.value.columns = op.df.columns
        /\ result.value.rows = op.df.rows

(***************************************************************************)
(* Properties of get_label_from_display_name.                              *)
(***************************************************************************)
\* C23: get_label_from_display_name, called with an entry type whose lower
\* case is neither "class" nor "property", raises ValueError, whatever the
\* display name and whether data_model_labels is "class_label" or
\* "display_label": it returns no label and raises no other error.
C23_ValueErrorOnOtherEntryType ==
    (/\ pc = "done"
     /\ op.name = "get_label_from_display_name"
     /\ LowerCase(op.entry_type) \notin {"class", "property"})
        => result.status = "ValueError"

(***************************************************************************)
(* Properties of Configuration.                                            *)
(***************************************************************************)
AccessDone == pc = "done" /\ op.name = "__getattribute__"
LoadDone == pc = "done" /\ op.name = "load_config"
GetDone == pc = "done" /\ op.name = "get"

\* there is a file at the path that SCHEMATIC_CONFIG names
EnvFileExists == environ # NotSet /\ files[abspath(environ)] # Missing

\* C24: the access of a field never returns None.  The access of a field
\* that is None raises AttributeError when SCHEMATIC_CONFIG is not set; when
\* it is set, and names a file, the access loads the configuration from it,
\* once, and returns the loaded value.  After load_config has returned, DATA
\* and CONFIG_PATH are set, and the access of a field that is set loads
\* nothing.
C24_FieldNeverUnset ==
    /\ AccessDone =>
          /\ result.status = "ok" => result.value # None
          /\ (op.was = None /\ environ = NotSet) => result.status = "AttributeError"
          /\ (op.was = None /\ EnvFileExists) =>
                /\ result.status = "ok"
                /\ result.value # None
                /\ loads = 1
          /\ op.was # None => (result = Ok(op.was) /\ loads = 0)
    /\ (LoadDone /\ result.status = "ok") => (DATA # None /\ CONFIG_PATH # None)

\* C25: the access of a field and load_config end, with a value or with an
\* error, having called load_config_from_env once at most, whatever load_yaml
\* returns, None for an empty or malformed file included.
C25_AtMostOneLoadFromEnv ==
    op.name \in {"__getattribute__", "load_config"} =>
        /\ loads <= 1
        /\ pc = "done" => result.status # "RecursionError"

\* C26: get(key, default) raises nothing: it returns the value stored under
\* the key when the loaded data has the key, and the default when nothing
\* is loaded and when the loaded data has no such key.
C26_GetNeverRaises ==
    GetDone =>
        /\ result.status = "ok"
        /\ (op.was # None /\ op.key \in DOMAIN op.was.items) =>
               result.value = op.was.items[op.key]
        /\ (op.was # None /\ op.key \notin DOMAIN op.was.items) =>
               result.value = op.default
        /\ (op.was = None /\ environ = NotSet) => result.value = op.default

====
